---------------------------- MODULE Spec2Model ----------------------------
(***************************************************************************)
(* portguard: the capture loop (tcpGuard / udpGuard), the port cache       *)
(* (smartVerify), the per-source scan state (isBlockedIP,                  *)
(* checkStateEngine) and the detached reaction goroutine                   *)
(* (runExternalCommand) of guard.go.                                       *)
(***************************************************************************)
EXTENDS Integers, Sequences, FiniteSets, TLC

\* ------------------------------------------------------------------ bounds
MaxTrigger == 1      \* scan_trigger values 0..MaxTrigger in the capture loop
MaxTime == 3         \* timestamps 0..MaxTime
MaxDuration == 2     \* the positive -duration value
MaxPortNo == 4       \* destination ports 0..MaxPortNo
MaxCalls == 4        \* direct calls of checkStateEngine in SpecEngine
MaxEngineTrigger == 2 \* scan_trigger values 0..MaxEngineTrigger in SpecEngine

\* --------------------------------------------------------------- constants
\* TCP control bits (RFC 793), used by guard.go as FIN, SYN, RST, PSH, ACK, URG
FIN == 1
SYN == 2
RST == 4
PSH == 8
ACK == 16
URG == 32

Loopback == "127.0.0.1"
Sources == {"10.0.0.5", "10.0.0.6"}
IPs == Sources \cup {Loopback}
Ports == 0..MaxPortNo
\* ports on which a local service may be listening when the bind probe runs
ServicePorts == {1}
\* control-flag values of the packets the capture loop is fed
FlagSet == {0, SYN, RST, SYN + ACK}
\* the largest value of a uint8 control-flag byte
MaxFlags == 255
Stages == <<"kill_route", "kill_run_cmd", "kill_notify_url">>

VARIABLES
    mode,               \* *mode: "tcp" or "udp"
    portCacheDuration,  \* *portCacheDuration
    cfgScanTrigger,
    cfgMinPort,
    cfgMaxPort,
    cfgExcludePorts,
    cfgNoisyPorts,
    cfgIgnoreIps,
    cfgKill,            \* the configured (non-empty) ones of cfgKillRoute, cfgKillRunCmd, cfgKillNotifyUrl
    peers,              \* the remote addresses packets arrive from
    ctrls,              \* the control-flag values their TCP packets carry
    checkedPortCache,   \* map[int]int64: port -> expiry
    stateEngine,        \* map[string][]int: ip -> ports
    tcp,                \* the TCPHeader the tcp loop parses into
    udp,                \* the UDPHeader the udp loop parses into
    clock,              \* the last value time.Now().Unix() returned
    pkt,                \* the packet the last loop iteration read
    ev,                 \* what the last loop iteration emitted and did
    blockedCount,       \* history: per ip, how often the blocked branch ran
    tasks,              \* the reaction goroutines spawned so far
    calls               \* history of SpecEngine: the direct calls made

cfg == <<mode, portCacheDuration, cfgScanTrigger, cfgMinPort, cfgMaxPort,
         cfgExcludePorts, cfgNoisyPorts, cfgIgnoreIps, cfgKill, peers, ctrls>>
vars == <<mode, portCacheDuration, cfgScanTrigger, cfgMinPort, cfgMaxPort,
          cfgExcludePorts, cfgNoisyPorts, cfgIgnoreIps, cfgKill, peers, ctrls,
          checkedPortCache, stateEngine, tcp, udp, clock, pkt, ev,
          blockedCount, tasks, calls>>

\* ----------------------------------------------------------------- helpers
Range(s) == {s[i] : i \in 1..Len(s)}
MapPut(m, k, v) == [x \in DOMAIN m \cup {k} |-> IF x = k THEN v ELSE m[x]]
MapDel(m, k) == [x \in DOMAIN m \ {k} |-> m[x]]
EmptyMap == [x \in {} |-> 0]

\* tcp.HasFlag(bit)
HasFlag(flags, bit) == (flags \div bit) % 2 = 1

\* ------------------------------------------------------------ port probing
\* smartVerifyPort: false when socket() fails, else true iff bind() fails
smartVerifyPort(sockErr, bindErr) ==
    IF sockErr THEN FALSE ELSE bindErr

\* mutant: the cache is switched off by < 0 for <= 0
smartVerify_DurationLt(port, timestamp, live) ==
    IF portCacheDuration < 0
    THEN [ret |-> live, cache |-> checkedPortCache, probed |-> TRUE,
          timed |-> FALSE, ops |-> {}]
    ELSE IF port \in DOMAIN checkedPortCache /\ checkedPortCache[port] > timestamp
    THEN [ret |-> TRUE, cache |-> checkedPortCache, probed |-> FALSE,
          timed |-> TRUE, ops |-> {"read"}]
    ELSE LET hadEntry == port \in DOMAIN checkedPortCache
             c1 == IF hadEntry THEN MapDel(checkedPortCache, port)
                   ELSE checkedPortCache
             c2 == IF live THEN MapPut(c1, port, timestamp + portCacheDuration)
                   ELSE c1
         IN [ret |-> live, cache |-> c2, probed |-> TRUE, timed |-> TRUE,
             ops |-> {"read"} \cup (IF hadEntry THEN {"delete"} ELSE {})
                              \cup (IF live THEN {"write"} ELSE {})]

\* mutant: an entry counts as expired one second early (expire > timestamp+1)
smartVerify_EarlyExpiry(port, timestamp, live) ==
    IF portCacheDuration <= 0
    THEN [ret |-> live, cache |-> checkedPortCache, probed |-> TRUE,
          timed |-> FALSE, ops |-> {}]
    ELSE IF port \in DOMAIN checkedPortCache /\ checkedPortCache[port] > timestamp + 1
    THEN [ret |-> TRUE, cache |-> checkedPortCache, probed |-> FALSE,
          timed |-> TRUE, ops |-> {"read"}]
    ELSE LET hadEntry == port \in DOMAIN checkedPortCache
             c1 == IF hadEntry THEN MapDel(checkedPortCache, port)
                   ELSE checkedPortCache
             c2 == IF live THEN MapPut(c1, port, timestamp + portCacheDuration)
                   ELSE c1
         IN [ret |-> live, cache |-> c2, probed |-> TRUE, timed |-> TRUE,
             ops |-> {"read"} \cup (IF hadEntry THEN {"delete"} ELSE {})
                              \cup (IF live THEN {"write"} ELSE {})]

\* mutant: an entry is never compared with the time, so it never expires
smartVerify_NoExpiry(port, timestamp, live) ==
    IF portCacheDuration <= 0
    THEN [ret |-> live, cache |-> checkedPortCache, probed |-> TRUE,
          timed |-> FALSE, ops |-> {}]
    ELSE IF port \in DOMAIN checkedPortCache
    THEN [ret |-> TRUE, cache |-> checkedPortCache, probed |-> FALSE,
          timed |-> TRUE, ops |-> {"read"}]
    ELSE LET c2 == IF live
                   THEN MapPut(checkedPortCache, port, timestamp + portCacheDuration)
                   ELSE checkedPortCache
         IN [ret |-> live, cache |-> c2, probed |-> TRUE, timed |-> TRUE,
             ops |-> {"read"} \cup (IF live THEN {"write"} ELSE {})]

\* mutant: a cache hit writes the entry again, with a new expiry
smartVerify_HitRefresh(port, timestamp, live) ==
    IF portCacheDuration <= 0
    THEN [ret |-> live, cache |-> checkedPortCache, probed |-> TRUE,
          timed |-> FALSE, ops |-> {}]
    ELSE IF port \in DOMAIN checkedPortCache /\ checkedPortCache[port] > timestamp
    THEN [ret |-> TRUE,
          cache |-> MapPut(checkedPortCache, port, timestamp + portCacheDuration),
          probed |-> FALSE, timed |-> TRUE, ops |-> {"read", "write"}]
    ELSE LET hadEntry == port \in DOMAIN checkedPortCache
             c1 == IF hadEntry THEN MapDel(checkedPortCache, port)
                   ELSE checkedPortCache
             c2 == IF live THEN MapPut(c1, port, timestamp + portCacheDuration)
                   ELSE c1
         IN [ret |-> live, cache |-> c2, probed |-> TRUE, timed |-> TRUE,
             ops |-> {"read"} \cup (IF hadEntry THEN {"delete"} ELSE {})
                              \cup (IF live THEN {"write"} ELSE {})]

\* smartVerify(port), with timestamp the value of time.Now().Unix() and
\* live the result smartVerifyPort(port) gives if it is called.
\* Result: ret, the cache afterwards, whether the bind probe ran,
\* whether the clock was read and the operations done on the cache.
smartVerify(port, timestamp, live) ==
    IF portCacheDuration <= 0
    THEN [ret |-> live, cache |-> checkedPortCache, probed |-> TRUE,
          timed |-> FALSE, ops |-> {}]
    ELSE IF port \in DOMAIN checkedPortCache /\ checkedPortCache[port] > timestamp
    THEN [ret |-> TRUE, cache |-> checkedPortCache, probed |-> FALSE,
          timed |-> TRUE, ops |-> {"read"}]
    ELSE LET hadEntry == port \in DOMAIN checkedPortCache
             c1 == IF hadEntry THEN MapDel(checkedPortCache, port)
                   ELSE checkedPortCache
             c2 == IF live THEN MapPut(c1, port, timestamp + portCacheDuration)
                   ELSE c1
         IN [ret |-> live, cache |-> c2, probed |-> TRUE, timed |-> TRUE,
             ops |-> {"read"} \cup (IF hadEntry THEN {"delete"} ELSE {})
                              \cup (IF live THEN {"write"} ELSE {})]

\* ------------------------------------------------------------ policy filter
\* mutant: the upper end of the port range is not checked
isExlcudePort_NoUpper(port) ==
    IF port < cfgMinPort THEN TRUE
    ELSE port \in cfgExcludePorts

isExlcudePort(port) ==
    IF port < cfgMinPort \/ port > cfgMaxPort THEN TRUE
    ELSE port \in cfgExcludePorts

isIgnoredIP(ip) == ip \in cfgIgnoreIps

\* -------------------------------------------------------------- scan state
\* mutant: the comparison is off by one (>= for >)
isBlockedIP_AtTrigger(ip) ==
    IF ip \notin DOMAIN stateEngine THEN FALSE
    ELSE Len(stateEngine[ip]) >= cfgScanTrigger

\* mutant: the comparison is off by one the other way (> T+1)
isBlockedIP_Late(ip) ==
    IF ip \notin DOMAIN stateEngine THEN FALSE
    ELSE Len(stateEngine[ip]) > cfgScanTrigger + 1

isBlockedIP(ip) ==
    IF ip \notin DOMAIN stateEngine THEN FALSE
    ELSE Len(stateEngine[ip]) > cfgScanTrigger

\* mutant: the loop that looks for the port in the sequence is missing
checkStateEngine_NoDupCheck(ip, port) ==
    LET ports == IF ip \in DOMAIN stateEngine THEN stateEngine[ip] ELSE << >>
        sz == cfgScanTrigger + 1
    IN IF Len(ports) >= sz
       THEN [ret |-> TRUE, engine |-> stateEngine]
       ELSE [ret |-> Len(ports) + 1 >= sz,
             engine |-> MapPut(stateEngine, ip, Append(ports, port))]

\* mutant: the comparison after the append is > for >=
checkStateEngine_LateTrigger(ip, port) ==
    LET ports == IF ip \in DOMAIN stateEngine THEN stateEngine[ip] ELSE << >>
        sz == cfgScanTrigger + 1
    IN IF Len(ports) >= sz
       THEN [ret |-> TRUE, engine |-> stateEngine]
       ELSE IF port \in Range(ports)
       THEN [ret |-> FALSE, engine |-> stateEngine]
       ELSE [ret |-> Len(ports) + 1 > sz,
             engine |-> MapPut(stateEngine, ip, Append(ports, port))]

\* mutant: the source's entry is dropped once it has triggered
checkStateEngine_Reset(ip, port) ==
    LET ports == IF ip \in DOMAIN stateEngine THEN stateEngine[ip] ELSE << >>
        sz == cfgScanTrigger + 1
    IN IF Len(ports) >= sz
       THEN [ret |-> TRUE, engine |-> stateEngine]
       ELSE IF port \in Range(ports)
       THEN [ret |-> FALSE, engine |-> stateEngine]
       ELSE IF Len(ports) + 1 >= sz
       THEN [ret |-> TRUE, engine |-> MapDel(stateEngine, ip)]
       ELSE [ret |-> FALSE,
             engine |-> MapPut(stateEngine, ip, Append(ports, port))]

\* mutant: the port is appended to the sequence of every source in the map
checkStateEngine_Broadcast(ip, port) ==
    LET ports == IF ip \in DOMAIN stateEngine THEN stateEngine[ip] ELSE << >>
        sz == cfgScanTrigger + 1
    IN IF Len(ports) >= sz
       THEN [ret |-> TRUE, engine |-> stateEngine]
       ELSE IF port \in Range(ports)
       THEN [ret |-> FALSE, engine |-> stateEngine]
       ELSE [ret |-> Len(ports) + 1 >= sz,
             engine |-> [x \in DOMAIN stateEngine \cup {ip} |->
                           IF x = ip THEN Append(ports, port)
                           ELSE Append(stateEngine[x], port)]]

\* checkStateEngine(ip, port): ret and the map afterwards
checkStateEngine(ip, port) ==
    LET ports == IF ip \in DOMAIN stateEngine THEN stateEngine[ip] ELSE << >>
        sz == cfgScanTrigger + 1
    IN IF Len(ports) >= sz
       THEN [ret |-> TRUE, engine |-> stateEngine]
       ELSE IF port \in Range(ports)
       THEN [ret |-> FALSE, engine |-> stateEngine]
       ELSE [ret |-> Len(ports) + 1 >= sz,
             engine |-> MapPut(stateEngine, ip, Append(ports, port))]

\* --------------------------------------------------------- packet labelling
\* mutant: the XMAS test compares the whole byte instead of masking it
reportPacketType_XmasExact(flags) ==
    IF flags = 0 THEN <<"TCP NULL scan">>
    ELSE IF flags = FIN + URG + PSH THEN <<"TCP XMAS scan">>
    ELSE IF flags = SYN THEN <<"TCP SYN/Normal scan">>
    ELSE <<"Unknown Type: TCP Packet Flags(FIN,SYN,RST,PSH,ACK,URG): %d", flags>>

\* reportPacketType(flags): the alarm line's label and its argument
reportPacketType(flags) ==
    IF flags = 0 THEN <<"TCP NULL scan">>
    ELSE IF HasFlag(flags, FIN) /\ HasFlag(flags, URG) /\ HasFlag(flags, PSH)
    THEN <<"TCP XMAS scan">>
    ELSE IF flags = SYN THEN <<"TCP SYN/Normal scan">>
    ELSE <<"Unknown Type: TCP Packet Flags(FIN,SYN,RST,PSH,ACK,URG): %d", flags>>

\* mutant: only RST is looked at
hasRstOrAck_RstOnly(ctrl) == HasFlag(ctrl, RST)

\* tcp.HasFlag(RST) || tcp.HasFlag(ACK)
hasRstOrAck(ctrl) == HasFlag(ctrl, RST) \/ HasFlag(ctrl, ACK)

\* ------------------------------------------------------------------ packets
\* A captured packet: its source address and, when the payload is long enough
\* to hold a header (short = FALSE), the destination port and control flags.
TcpPackets ==
    [ip : peers, short : {FALSE}, port : Ports, flags : ctrls]
    \cup [ip : peers, short : {TRUE}, port : {0}, flags : {0}]
UdpPackets ==
    [ip : peers, short : {FALSE}, port : Ports, flags : {0}]
    \cup [ip : peers, short : {TRUE}, port : {0}, flags : {0}]
NoPacket == [ip |-> "", short |-> TRUE, port |-> 0, flags |-> 0]

\* NewTCPHeader(b[:numRead], &tcp): the header after the call, old the one before
NewTCPHeader(p, old) ==
    IF p.short THEN old ELSE [Destination |-> p.port, Ctrl |-> p.flags]

\* NewUDPHeader(b[:numRead], &udp)
NewUDPHeader(p, old) ==
    IF p.short THEN old ELSE [Destination |-> p.port]

\* what one loop iteration emitted: logAlarm, logBlocked and runExternalCommand
\* calls, bind probes made, operations on the port cache, the udp loop's
\* log.Printf, a logged read error; stuck: a reaction of an earlier
\* dispatch was hanging while the iteration ran; stored: checkStateEngine
\* appended the port to the source's sequence
NoEv == [alarm |-> << >>, blocked |-> << >>, dispatch |-> << >>,
         probes |-> << >>, ops |-> {}, trace |-> FALSE, readErr |-> FALSE,
         stuck |-> FALSE, stored |-> FALSE]

\* ---------------------------------------------------------------- reactions
\* the first configured reaction after stage k (4: none left, goroutine ends)
NextStage(k) ==
    IF \E j \in (k + 1)..3 : Stages[j] \in cfgKill
    THEN CHOOSE j \in (k + 1)..3 :
            /\ Stages[j] \in cfgKill
            /\ \A i \in (k + 1)..(j - 1) : Stages[i] \notin cfgKill
    ELSE 4

\* mutant: the reactions are called in place, without `go`
runExternalCommand_NoGo(ip, port) ==
    IF cfgKill = {} THEN tasks
    ELSE Append(tasks, [ip |-> ip, port |-> port, pc |-> 0, st |-> "run",
                        detached |-> FALSE])

\* runExternalCommand(ip, port): the goroutines afterwards; the function
\* literal is started with `go`, so the caller does not wait for it
runExternalCommand(ip, port) ==
    IF cfgKill = {} THEN tasks
    ELSE Append(tasks, [ip |-> ip, port |-> port, pc |-> 0, st |-> "run",
                        detached |-> TRUE])

\* the loop is not inside a call it has to wait for: every reaction body it
\* started either runs detached or has ended
callerFree ==
    \A i \in 1..Len(tasks) : tasks[i].detached \/ tasks[i].pc = 4

\* the event record an iteration starts from
StartEv == [NoEv EXCEPT !.stuck = \E i \in 1..Len(tasks) : tasks[i].st = "hung"]

\* the goroutine is scheduled and reaches its first configured reaction
goStart(i) ==
    /\ tasks[i].pc = 0
    /\ tasks' = [tasks EXCEPT ![i].pc = NextStage(0)]
    /\ UNCHANGED <<cfg, checkedPortCache, stateEngine, tcp, udp, clock, pkt,
                   ev, blockedCount, calls>>

\* mutant: when a reaction has returned the goroutine takes the source's
\* entry out of stateEngine
goReturn_Unblock(i) ==
    /\ tasks[i].pc \in 1..3
    /\ tasks[i].st = "run"
    /\ tasks' = [tasks EXCEPT ![i].pc = NextStage(tasks[i].pc)]
    /\ stateEngine' = MapDel(stateEngine, tasks[i].ip)
    /\ UNCHANGED <<cfg, checkedPortCache, tcp, udp, clock, pkt,
                   ev, blockedCount, calls>>

\* runCmd / requestUrl returns, with an error (which logMain logs) or without,
\* and either way the goroutine goes on to the next configured reaction
goReturn(i) ==
    /\ tasks[i].pc \in 1..3
    /\ tasks[i].st = "run"
    /\ tasks' = [tasks EXCEPT ![i].pc = NextStage(tasks[i].pc)]
    /\ UNCHANGED <<cfg, checkedPortCache, stateEngine, tcp, udp, clock, pkt,
                   ev, blockedCount, calls>>

\* runCmd / requestUrl never returns: no timeout is set on either
goHang(i) ==
    /\ tasks[i].pc \in 1..3
    /\ tasks[i].st = "run"
    /\ tasks' = [tasks EXCEPT ![i].st = "hung"]
    /\ UNCHANGED <<cfg, checkedPortCache, stateEngine, tcp, udp, clock, pkt,
                   ev, blockedCount, calls>>

\* ------------------------------------------------------------- capture loop
\* a packet dropped by `continue` before the port check
Continue(e) ==
    /\ ev' = e
    /\ UNCHANGED <<checkedPortCache, stateEngine, clock, blockedCount, tasks>>

\* mutant: checkStateEngine is called first, and the alarm is logged only
\* when it stored the port
Alarm_AfterEngine(ip, port, line, e) ==
    LET cs == checkStateEngine(ip, port)
        e2 == IF cs.engine # stateEngine
              THEN [e EXCEPT !.alarm = <<[line |-> line, ip |-> ip, port |-> port]>>,
                             !.stored = TRUE]
              ELSE e
    IN /\ stateEngine' = cs.engine
       /\ IF cs.ret
          THEN /\ ev' = [e2 EXCEPT !.blocked = <<[ip |-> ip, port |-> port]>>,
                                   !.dispatch = <<[ip |-> ip, port |-> port]>>]
               /\ blockedCount' = [blockedCount EXCEPT ![ip] = @ + 1]
               /\ tasks' = runExternalCommand(ip, port)
          ELSE /\ ev' = e2
               /\ UNCHANGED <<blockedCount, tasks>>

\* guard.go 303-309 / 359-364: logAlarm, then checkStateEngine and, when it
\* returns true, logBlocked and runExternalCommand; e the events so far
Alarm(ip, port, line, e) ==
    LET cs == checkStateEngine(ip, port)
        e2 == [e EXCEPT !.alarm = <<[line |-> line, ip |-> ip, port |-> port]>>,
                        !.stored = cs.engine # stateEngine]
    IN /\ stateEngine' = cs.engine
       /\ IF cs.ret
          THEN /\ ev' = [e2 EXCEPT !.blocked = <<[ip |-> ip, port |-> port]>>,
                                   !.dispatch = <<[ip |-> ip, port |-> port]>>]
               /\ blockedCount' = [blockedCount EXCEPT ![ip] = @ + 1]
               /\ tasks' = runExternalCommand(ip, port)
          ELSE /\ ev' = e2
               /\ UNCHANGED <<blockedCount, tasks>>

\* mutant: the result of the port check is taken the wrong way round
Detect_Inverted(ip, port, line, e) ==
    IF isExlcudePort(port) THEN Continue(e)
    ELSE IF isIgnoredIP(ip) THEN Continue(e)
    ELSE IF isBlockedIP(ip) THEN Continue(e)
    ELSE \E timestamp \in (IF portCacheDuration > 0 THEN clock..MaxTime ELSE {clock}),
            sockErr \in BOOLEAN,
            bindErr \in (IF port \in ServicePorts THEN BOOLEAN ELSE {FALSE}) :
         LET live == smartVerifyPort(sockErr, bindErr)
             sv == smartVerify(port, timestamp, live)
             e1 == [e EXCEPT !.probes = IF sv.probed
                                        THEN <<[port |-> port, inUse |-> live]>>
                                        ELSE << >>,
                             !.ops = sv.ops]
         IN /\ checkedPortCache' = sv.cache
            /\ clock' = IF sv.timed THEN timestamp ELSE clock
            /\ IF ~sv.ret
               THEN /\ ev' = e1
                    /\ UNCHANGED <<stateEngine, blockedCount, tasks>>
               ELSE Alarm(ip, port, line, e1)

\* mutant: the port check runs before the isBlockedIP filter, and a blocked
\* source is dropped after it
Detect_ProbeFirst(ip, port, line, e) ==
    IF isExlcudePort(port) THEN Continue(e)
    ELSE IF isIgnoredIP(ip) THEN Continue(e)
    ELSE \E timestamp \in (IF portCacheDuration > 0 THEN clock..MaxTime ELSE {clock}),
            sockErr \in BOOLEAN,
            bindErr \in (IF port \in ServicePorts THEN BOOLEAN ELSE {FALSE}) :
         LET live == smartVerifyPort(sockErr, bindErr)
             sv == smartVerify(port, timestamp, live)
             e1 == [e EXCEPT !.probes = IF sv.probed
                                        THEN <<[port |-> port, inUse |-> live]>>
                                        ELSE << >>,
                             !.ops = sv.ops]
         IN /\ checkedPortCache' = sv.cache
            /\ clock' = IF sv.timed THEN timestamp ELSE clock
            /\ IF sv.ret \/ isBlockedIP(ip)
               THEN /\ ev' = e1
                    /\ UNCHANGED <<stateEngine, blockedCount, tasks>>
               ELSE Alarm(ip, port, line, e1)

\* guard.go 283-309 / 339-364: the filters, the port check, the alarm and the
\* scan-state update, for source ip, destination port and alarm line `line`
Detect(ip, port, line, e) ==
    IF isExlcudePort(port) THEN Continue(e)
    ELSE IF isIgnoredIP(ip) THEN Continue(e)
    ELSE IF isBlockedIP(ip) THEN Continue(e)
    ELSE \E timestamp \in (IF portCacheDuration > 0 THEN clock..MaxTime ELSE {clock}),
            sockErr \in BOOLEAN,
            bindErr \in (IF port \in ServicePorts THEN BOOLEAN ELSE {FALSE}) :
         LET live == smartVerifyPort(sockErr, bindErr)
             sv == smartVerify(port, timestamp, live)
             e1 == [e EXCEPT !.probes = IF sv.probed
                                        THEN <<[port |-> port, inUse |-> live]>>
                                        ELSE << >>,
                             !.ops = sv.ops]
         IN /\ checkedPortCache' = sv.cache
            /\ clock' = IF sv.timed THEN timestamp ELSE clock
            /\ IF sv.ret
               THEN /\ ev' = e1
                    /\ UNCHANGED <<stateEngine, blockedCount, tasks>>
               ELSE Alarm(ip, port, line, e1)

\* one iteration of tcpGuard's loop on a packet read without error
tcpGuard ==
    /\ mode = "tcp"
    /\ callerFree
    /\ \E p \in TcpPackets :
         LET hdr == NewTCPHeader(p, tcp)
         IN /\ pkt' = p
            /\ tcp' = hdr
            /\ IF hasRstOrAck(hdr.Ctrl)
               THEN Continue(StartEv)
               ELSE Detect(p.ip, hdr.Destination, reportPacketType(hdr.Ctrl), StartEv)
    /\ UNCHANGED <<cfg, udp, calls>>

\* one iteration of udpGuard's loop on a packet read without error
udpGuard ==
    /\ mode = "udp"
    /\ callerFree
    /\ \E p \in UdpPackets :
         LET hdr == NewUDPHeader(p, udp)
         IN /\ pkt' = p
            /\ udp' = hdr
            /\ IF hdr.Destination \in cfgNoisyPorts
               THEN Continue(StartEv)
               ELSE Detect(p.ip, hdr.Destination, <<"UDP scan">>,
                           [StartEv EXCEPT !.trace = TRUE])
    /\ UNCHANGED <<cfg, tcp, calls>>

\* conn.ReadFromIP fails: logged, and the loop continues
readError ==
    /\ callerFree
    /\ pkt' = NoPacket
    /\ ev' = [StartEv EXCEPT !.readErr = TRUE]
    /\ UNCHANGED <<cfg, checkedPortCache, stateEngine, tcp, udp, clock,
                   blockedCount, tasks, calls>>

\* ---------------------------------------------------------- specification
\* the configurations. One scanning peer and the loopback address: without
\* port cache (duration -1 without reactions, duration 0 under none, one and
\* all three reactions), and with port cache (tcp without reactions, and
\* with one under trigger 0; udp under none or one reaction). Two scanning peers, without port cache: without
\* reactions, and in udp mode with trigger 0 and one reaction.
Deployments ==
    [mode : {"tcp", "udp"}, duration : {-1}, trigger : 0..MaxTrigger,
     kill : {{}}, peers : {{"10.0.0.5", Loopback}}]
    \cup
    [mode : {"tcp", "udp"}, duration : {0}, trigger : 0..MaxTrigger,
     kill : {{}, {"kill_run_cmd"}, {"kill_route", "kill_run_cmd", "kill_notify_url"}},
     peers : {{"10.0.0.5", Loopback}}]
    \cup
    [mode : {"tcp"}, duration : {MaxDuration}, trigger : 0..MaxTrigger,
     kill : {{}}, peers : {{"10.0.0.5", Loopback}}]
    \cup
    [mode : {"tcp"}, duration : {MaxDuration}, trigger : {0},
     kill : {{"kill_run_cmd"}}, peers : {{"10.0.0.5", Loopback}}]
    \cup
    [mode : {"udp"}, duration : {MaxDuration}, trigger : 0..MaxTrigger,
     kill : {{}, {"kill_run_cmd"}}, peers : {{"10.0.0.5", Loopback}}]
    \cup
    [mode : {"tcp", "udp"}, duration : {0}, trigger : 0..MaxTrigger,
     kill : {{}}, peers : {Sources}]
    \cup
    [mode : {"udp"}, duration : {0}, trigger : {0},
     kill : {{"kill_run_cmd"}}, peers : {Sources}]

\* the state when main enters the guard loop
Init ==
    /\ \E d \in Deployments :
         /\ mode = d.mode
         /\ portCacheDuration = d.duration
         /\ cfgScanTrigger = d.trigger
         /\ cfgKill = d.kill
         /\ peers = d.peers
    /\ ctrls = FlagSet
    /\ cfgMinPort = 1
    /\ cfgMaxPort = 3
    /\ cfgExcludePorts = {3}
    /\ cfgNoisyPorts = {2}
    /\ cfgIgnoreIps = {Loopback}
    /\ checkedPortCache = EmptyMap
    /\ stateEngine = EmptyMap
    /\ tcp = [Destination |-> 0, Ctrl |-> 0]
    /\ udp = [Destination |-> 0]
    /\ clock = 0
    /\ pkt = NoPacket
    /\ ev = NoEv
    /\ blockedCount = [ip \in IPs |-> 0]
    /\ tasks = << >>
    /\ calls = << >>

Next ==
    \/ tcpGuard
    \/ udpGuard
    \/ readError
    \/ \E i \in 1..Len(tasks) : goStart(i)
    \/ \E i \in 1..Len(tasks) : goReturn(i)
    \/ \E i \in 1..Len(tasks) : goHang(i)

Spec == Init /\ [][Next]_vars

\* ------------------------------------------------- the scan state on its own
\* ports of the calls made in SpecEngine
EnginePorts == {10, 20, 30}

\* checkStateEngine(ip, port) called directly, whatever the state of ip
engineCall ==
    /\ Len(calls) < MaxCalls
    /\ \E ip \in Sources, port \in EnginePorts :
         LET cs == checkStateEngine(ip, port)
         IN /\ stateEngine' = cs.engine
            /\ calls' = Append(calls, [ip |-> ip, port |-> port, ret |-> cs.ret,
                                       len |-> IF ip \in DOMAIN cs.engine
                                               THEN Len(cs.engine[ip]) ELSE 0])
    /\ UNCHANGED <<cfg, checkedPortCache, tcp, udp, clock, pkt, ev,
                   blockedCount, tasks>>

InitEngine ==
    /\ mode = "tcp"
    /\ portCacheDuration = 0
    /\ cfgScanTrigger \in 0..MaxEngineTrigger
    /\ cfgKill = {}
    /\ peers = Sources
    /\ ctrls = FlagSet
    /\ cfgMinPort = 0
    /\ cfgMaxPort = 65535
    /\ cfgExcludePorts = {}
    /\ cfgNoisyPorts = {}
    /\ cfgIgnoreIps = {Loopback}
    /\ checkedPortCache = EmptyMap
    /\ stateEngine = EmptyMap
    /\ tcp = [Destination |-> 0, Ctrl |-> 0]
    /\ udp = [Destination |-> 0]
    /\ clock = 0
    /\ pkt = NoPacket
    /\ ev = NoEv
    /\ blockedCount = [ip \in IPs |-> 0]
    /\ tasks = << >>
    /\ calls = << >>

NextEngine == engineCall

SpecEngine == InitEngine /\ [][NextEngine]_vars

\* --------------------------------------------- the packet label on its own
\* reportPacketType(flags) called directly on the control-flag byte
classify ==
    /\ calls = << >>
    /\ \E flags \in ctrls :
         calls' = <<[flags |-> flags, label |-> reportPacketType(flags)]>>
    /\ UNCHANGED <<cfg, checkedPortCache, stateEngine, tcp, udp, clock, pkt,
                   ev, blockedCount, tasks>>

\* tcp mode without port cache and reactions, one peer whose packets all
\* carry the same control-flag byte, any of the 256
InitClassify ==
    /\ mode = "tcp"
    /\ portCacheDuration = 0
    /\ cfgScanTrigger \in 0..MaxTrigger
    /\ cfgKill = {}
    /\ peers = {"10.0.0.5"}
    /\ \E flags \in 0..MaxFlags : ctrls = {flags}
    /\ cfgMinPort = 1
    /\ cfgMaxPort = 3
    /\ cfgExcludePorts = {3}
    /\ cfgNoisyPorts = {2}
    /\ cfgIgnoreIps = {Loopback}
    /\ checkedPortCache = EmptyMap
    /\ stateEngine = EmptyMap
    /\ tcp = [Destination |-> 0, Ctrl |-> 0]
    /\ udp = [Destination |-> 0]
    /\ clock = 0
    /\ pkt = NoPacket
    /\ ev = NoEv
    /\ blockedCount = [ip \in IPs |-> 0]
    /\ tasks = << >>
    /\ calls = << >>

NextClassify ==
    \/ classify
    \/ tcpGuard

SpecClassify == InitClassify /\ [][NextClassify]_vars

\* ------------------------------------------------------------------ claims
T == cfgScanTrigger
Last(s) == s[Len(s)]
NoDup(s) == \A i, j \in 1..Len(s) : i # j => s[i] # s[j]
\* a step of the capture loop (a goroutine step changes an entry of tasks)
LoopStep == tasks' = tasks \/ Len(tasks') > Len(tasks)
\* the header fields the iteration that just ran worked on
Port == IF mode = "tcp" THEN tcp.Destination ELSE udp.Destination

\* C1: every stored port sequence has at most T+1 entries and no port twice
C1_Bounded ==
    \A ip \in DOMAIN stateEngine :
        /\ Len(stateEngine[ip]) <= T + 1
        /\ NoDup(stateEngine[ip])

C1_Witness ==
    /\ T = 1
    /\ \E ip \in DOMAIN stateEngine : Len(stateEngine[ip]) = 2
    /\ \E ip \in DOMAIN stateEngine : Len(stateEngine[ip]) = 1
    /\ peers = Sources

\* C2: the blocked branch (logBlocked and runExternalCommand) runs at most once
\* per source, exactly when the source's sequence has reached T+1 entries, and
\* on the packet whose port is the entry appended last
C2_OncePerSource ==
    /\ \A ip \in IPs :
         /\ blockedCount[ip] <= 1
         /\ blockedCount[ip] = 1 <=>
              (ip \in DOMAIN stateEngine /\ Len(stateEngine[ip]) = T + 1)
         /\ Cardinality({i \in 1..Len(tasks) : tasks[i].ip = ip}) <= blockedCount[ip]
    /\ ev.dispatch = ev.blocked
    /\ ev.blocked # << >> =>
         /\ ev.blocked[1].ip = pkt.ip
         /\ ev.blocked[1].port = Port
         /\ Len(stateEngine[pkt.ip]) = T + 1
         /\ Last(stateEngine[pkt.ip]) = Port
         /\ ev.alarm # << >>

C2_Witness ==
    /\ mode = "udp"
    /\ T = 0
    /\ blockedCount["10.0.0.5"] = 1
    /\ ev.blocked = << >>
    /\ ev.alarm = << >>
    /\ pkt.ip = "10.0.0.5"
    /\ ~pkt.short
    /\ ~isExlcudePort(pkt.port)
    /\ pkt.port \notin cfgNoisyPorts

\* C3: over any sequence of calls, checkStateEngine returns true (the trigger)
\* at most once per source
C3_TriggerOnce ==
    \A ip \in Sources :
        Cardinality({i \in 1..Len(calls) : calls[i].ip = ip /\ calls[i].ret}) <= 1

\* the distinct ports of ip among the first n calls
Distinct(ip, n) == {calls[i].port : i \in {k \in 1..n : calls[k].ip = ip}}
Min(a, b) == IF a < b THEN a ELSE b

\* C4: the recorded length is the number of distinct ports probed, capped at
\* T+1; a call on a source not yet blocked returns true exactly when it
\* carries the (T+1)-th distinct port, and false otherwise
C4_TriggerOnNthDistinct ==
    \A n \in 1..Len(calls) :
        LET c == calls[n]
            before == Cardinality(Distinct(c.ip, n - 1))
            after == Cardinality(Distinct(c.ip, n))
        IN /\ c.len = Min(after, T + 1)
           /\ before <= T => (c.ret <=> (after = T + 1))
           /\ (before <= T /\ after = before) => ~c.ret

C4_Witness ==
    /\ T = 2
    /\ Len(calls) = 4
    /\ \A n \in 1..4 : calls[n].ip = "10.0.0.5"
    /\ <<calls[1].port, calls[2].port, calls[3].port, calls[4].port>> = <<10, 20, 10, 30>>
    /\ <<calls[1].len, calls[2].len, calls[3].len, calls[4].len>> = <<1, 2, 2, 3>>
    /\ <<calls[1].ret, calls[2].ret, calls[3].ret, calls[4].ret>> = <<FALSE, FALSE, FALSE, TRUE>>

\* C5: a source is blocked iff a sequence is stored for it with more than T
\* entries, which is iff the stored sequence has exactly T+1 entries
C5_BlockedIff ==
    \A ip \in IPs :
        /\ isBlockedIP(ip) <=> (ip \in DOMAIN stateEngine /\ Len(stateEngine[ip]) > T)
        /\ isBlockedIP(ip) <=> (ip \in DOMAIN stateEngine /\ Len(stateEngine[ip]) = T + 1)
        /\ ip \notin DOMAIN stateEngine => ~isBlockedIP(ip)

C5_Witness ==
    /\ T = 1
    /\ peers = Sources
    /\ isBlockedIP("10.0.0.5")
    /\ "10.0.0.6" \in DOMAIN stateEngine
    /\ ~isBlockedIP("10.0.0.6")

\* the step is a loop iteration whose packet got past the RST/ACK or noisy-port
\* drop, the excluded-port, ignored-source and blocked-source filters, so that
\* smartVerify was called
PassedFilters ==
    /\ LoopStep
    /\ pkt' # NoPacket
    /\ mode = "tcp" => ~(HasFlag(tcp'.Ctrl, RST) \/ HasFlag(tcp'.Ctrl, ACK))
    /\ mode = "udp" => udp'.Destination \notin cfgNoisyPorts
    /\ ~isExlcudePort(Port')
    /\ ~isIgnoredIP(pkt'.ip)
    /\ ~isBlockedIP(pkt'.ip)

\* C6: with D > 0, a lookup of a port whose entry was written at t0 (expiry
\* t0+D) answers "in use" without a bind probe at any time up to t0+D-1, and
\* at any time from t0+D+1 on removes the entry and returns a fresh probe
C6_CacheWindow ==
    [][(portCacheDuration > 0 /\ PassedFilters /\ Port' \in DOMAIN checkedPortCache) =>
         LET expire == checkedPortCache[Port']
             t0 == expire - portCacheDuration
             t == clock'
         IN /\ t0 <= t
            /\ t <= t0 + portCacheDuration - 1 =>
                 /\ ev'.probes = << >>
                 /\ ev'.alarm = << >>
                 /\ ev'.ops = {"read"}
                 /\ UNCHANGED <<checkedPortCache, stateEngine>>
            /\ t >= t0 + portCacheDuration + 1 =>
                 /\ "delete" \in ev'.ops
                 /\ Len(ev'.probes) = 1
                 /\ ev'.probes[1].port = Port'
                 /\ ev'.alarm = << >> <=> ev'.probes[1].inUse
                 /\ IF ev'.probes[1].inUse
                    THEN checkedPortCache' = MapPut(checkedPortCache, Port', t + portCacheDuration)
                    ELSE checkedPortCache' = MapDel(checkedPortCache, Port')
      ]_vars

\* a lookup at the last instant of the window, t0+D-1, answered from the cache
C6_Witness ==
    /\ portCacheDuration = MaxDuration
    /\ Port \in DOMAIN checkedPortCache
    /\ clock = checkedPortCache[Port] - 1
    /\ ev.ops = {"read"}
    /\ ev.probes = << >>
    /\ pkt.ip \in Sources

\* C7: with D <= 0 the cache stays empty and is never read or written, the
\* clock is not read, and every lookup is a bind probe whose result decides
C7_NoCache ==
    [][portCacheDuration <= 0 =>
         /\ checkedPortCache = EmptyMap
         /\ checkedPortCache' = EmptyMap
         /\ ev'.ops = {}
         /\ clock' = clock
         /\ PassedFilters =>
              /\ Len(ev'.probes) = 1
              /\ ev'.probes[1].port = Port'
              /\ ev'.alarm = << >> <=> ev'.probes[1].inUse
      ]_vars

C7_Witness ==
    /\ portCacheDuration = 0
    /\ ev.probes # << >>
    /\ ev.probes[1].inUse
    /\ ev.alarm = << >>
    /\ checkedPortCache = EmptyMap

\* C8: in tcp mode a packet with RST or ACK set emits nothing, makes no bind
\* probe and leaves scan state and port cache as they were
C8_RstAckIgnored ==
    [][(/\ LoopStep
        /\ mode = "tcp"
        /\ pkt' # NoPacket
        /\ ~pkt'.short
        /\ HasFlag(pkt'.flags, RST) \/ HasFlag(pkt'.flags, ACK)) =>
         /\ ev'.alarm = << >>
         /\ ev'.blocked = << >>
         /\ ev'.dispatch = << >>
         /\ ev'.probes = << >>
         /\ ev'.ops = {}
         /\ UNCHANGED <<stateEngine, checkedPortCache, clock, blockedCount, tasks>>
      ]_vars

\* a SYN+ACK packet from a source that is not blocked, to a monitored port
C8_Witness ==
    /\ mode = "tcp"
    /\ ~pkt.short
    /\ pkt.flags = SYN + ACK
    /\ pkt.ip \in Sources
    /\ ~isBlockedIP(pkt.ip)
    /\ pkt.port \in cfgMinPort..cfgMaxPort \ cfgExcludePorts
    /\ pkt.port \notin ServicePorts
    /\ ev = NoEv

\* C9: a packet to a port below minPort, above maxPort or in the excluded set
\* raises no alarm and leaves scan state and port cache as they were
C9_ExcludedPortQuiet ==
    [][(/\ LoopStep
        /\ pkt' # NoPacket
        /\ ~pkt'.short
        /\ \/ pkt'.port < cfgMinPort
           \/ pkt'.port > cfgMaxPort
           \/ pkt'.port \in cfgExcludePorts) =>
         /\ ev'.alarm = << >>
         /\ ev'.blocked = << >>
         /\ ev'.dispatch = << >>
         /\ ev'.probes = << >>
         /\ UNCHANGED <<stateEngine, checkedPortCache>>
      ]_vars

\* a udp packet to a port above maxPort from a source that is not blocked
C9_Witness ==
    /\ mode = "udp"
    /\ ~pkt.short
    /\ pkt.port > cfgMaxPort
    /\ pkt.ip \in Sources
    /\ ~isBlockedIP(pkt.ip)
    /\ ev = [NoEv EXCEPT !.trace = TRUE]

\* C10: a reaction that never returns does not keep the other configured
\* reactions of its dispatch from starting: a goroutine stuck in a reaction
\* has started every configured reaction
C10_ReactionsIndependent ==
    \A i \in 1..Len(tasks) :
        tasks[i].st = "hung" => NextStage(tasks[i].pc) = 4

\* C11: the loop never waits for a reaction: every reaction body runs detached
\* from the loop, a dispatch leaves the new goroutine not yet started and the
\* older ones as they were, and with hanging reactions the loop stays enabled
C11_LoopNeverWaits ==
    [][/\ callerFree
       /\ callerFree'
       /\ Len(tasks') > Len(tasks) =>
            /\ Len(tasks') = Len(tasks) + 1
            /\ SubSeq(tasks', 1, Len(tasks)) = tasks
            /\ tasks'[Len(tasks')].pc = 0
            /\ ev'.dispatch # << >>
      ]_vars

\* with the only reaction of an earlier dispatch hanging, a packet of another
\* source went through the whole pipeline and was itself dispatched
C11_Witness ==
    /\ Len(tasks) = 2
    /\ tasks[1].st = "hung"
    /\ ev.stuck
    /\ ev.alarm # << >>
    /\ ev.dispatch # << >>
    /\ ev.dispatch[1].ip = tasks[2].ip
    /\ tasks[2].pc = 0

\* C12: a loop step on a packet shorter than the minimum header length drops
\* it: no alarm, no blocked log, no reaction, no bind probe, no port-cache
\* operation, and scan state, port cache and reactions stay as they were
C12_ShortPacketDropped ==
    [][(LoopStep /\ pkt' # NoPacket /\ pkt'.short) =>
            /\ ev'.alarm = << >>
            /\ ev'.blocked = << >>
            /\ ev'.dispatch = << >>
            /\ ev'.probes = << >>
            /\ ev'.ops = {}
            /\ stateEngine' = stateEngine
            /\ checkedPortCache' = checkedPortCache
            /\ tasks' = tasks
      ]_vars

\* the label the classifier is to give a control-flag byte
ClaimLabel(flags) ==
    CASE flags = 0 -> <<"TCP NULL scan">>
      [] flags # 0 /\ flags % 2 = 1 /\ (flags \div 8) % 2 = 1 /\ (flags \div 32) % 2 = 1 ->
           <<"TCP XMAS scan">>
      [] flags = 2 -> <<"TCP SYN/Normal scan">>
      [] OTHER -> <<"Unknown Type: TCP Packet Flags(FIN,SYN,RST,PSH,ACK,URG): %d", flags>>

\* C13: for every control-flag byte the classifier answers Null for 0, else
\* Xmas when FIN, URG and PSH are all set, else Syn for exactly SYN, else
\* Unknown with the byte; and the label is only text: a packet that is not
\* dropped for RST or ACK alarms exactly when its port is monitored, its source
\* is neither ignored nor blocked and the port is found free, whatever its
\* flags, the alarm carries the label of its flags, and the scan state moves
\* as checkStateEngine says exactly when it alarms
C13_Classifier ==
    [][/\ \A i \in 1..Len(calls') : calls'[i].label = ClaimLabel(calls'[i].flags)
       /\ (/\ calls' = calls
           /\ ~pkt'.short
           /\ (pkt'.flags \div 4) % 2 = 0
           /\ (pkt'.flags \div 16) % 2 = 0) =>
            LET ip == pkt'.ip
                port == pkt'.port
                gate == /\ port \in cfgMinPort..cfgMaxPort
                        /\ port \notin cfgExcludePorts
                        /\ ip \notin cfgIgnoreIps
                        /\ ~(ip \in DOMAIN stateEngine /\ Len(stateEngine[ip]) > T)
            IN /\ ev'.probes # << >> <=> gate
               /\ ev'.alarm # << >> <=> (gate /\ ~ev'.probes[1].inUse)
               /\ ev'.alarm # << >> => ev'.alarm[1].line = ClaimLabel(pkt'.flags)
               /\ stateEngine' = IF ev'.alarm # << >>
                                 THEN checkStateEngine(ip, port).engine
                                 ELSE stateEngine
      ]_vars

C13_Witness ==
    /\ calls # << >>
    /\ calls[1].flags = FIN + PSH + URG + SYN + 64
    /\ calls[1].label = <<"TCP XMAS scan">>
    /\ pkt.flags = calls[1].flags
    /\ ev.alarm # << >>
    /\ ev.alarm[1].line = <<"TCP XMAS scan">>
    /\ stateEngine # EmptyMap

C15_BlockedDropped ==
    [][(/\ LoopStep
        /\ pkt' # NoPacket
        /\ pkt'.ip \in DOMAIN stateEngine
        /\ Len(stateEngine[pkt'.ip]) > T) =>
            /\ ev'.probes = << >>
            /\ ev'.ops = {}
            /\ ev'.alarm = << >>
            /\ ev'.blocked = << >>
            /\ ev'.dispatch = << >>
            /\ stateEngine' = stateEngine
            /\ checkedPortCache' = checkedPortCache
            /\ clock' = clock
            /\ blockedCount' = blockedCount
            /\ tasks' = tasks
      ]_vars

\* a blocked source's full packet to a monitored port that was dropped
C15_Witness ==
    /\ pkt # NoPacket
    /\ ~pkt.short
    /\ pkt.ip \in DOMAIN stateEngine
    /\ Len(stateEngine[pkt.ip]) > T
    /\ blockedCount[pkt.ip] = 1
    /\ pkt.port \in cfgMinPort..cfgMaxPort
    /\ pkt.port \notin cfgExcludePorts
    /\ mode = "tcp" => pkt.flags = SYN
    /\ mode = "udp" => pkt.port \notin cfgNoisyPorts
    /\ portCacheDuration > 0
    /\ ev.alarm = << >>
    /\ ev.probes = << >>
    /\ ev.ops = {}

\* C16: a packet whose port the port check reports in use, by a bind probe or by
\* a cache entry that has not expired at the time of the lookup, logs no
\* alarm and no block, starts no reaction and leaves every source's scan
\* state as it was
C16_InUseQuiet ==
    [][(/\ LoopStep
        /\ \/ ev'.probes # << >> /\ ev'.probes[1].inUse
           \/ /\ portCacheDuration > 0
              /\ Port' \in DOMAIN checkedPortCache
              /\ checkedPortCache[Port'] > clock') =>
            /\ ev'.alarm = << >>
            /\ ev'.blocked = << >>
            /\ ev'.dispatch = << >>
            /\ stateEngine' = stateEngine
            /\ blockedCount' = blockedCount
            /\ tasks' = tasks
      ]_vars

\* a source that has alarmed on a free port sends a packet to the service
\* port, the bind probe finds it in use, and nothing is logged or counted
C16_Witness ==
    /\ pkt # NoPacket
    /\ ~pkt.short
    /\ pkt.port \in ServicePorts
    /\ ev.probes = <<[port |-> pkt.port, inUse |-> TRUE]>>
    /\ ev.alarm = << >>
    /\ pkt.ip \in DOMAIN stateEngine
    /\ pkt.port \notin Range(stateEngine[pkt.ip])
    /\ Len(stateEngine[pkt.ip]) <= T

\* C17: scan state only grows. In every step each source that has a
\* sequence keeps it or has one port appended to it, a source that gets its
\* sequence gets it with one port, and a source that is blocked before the
\* step is blocked after it
C17_ScanStateGrows ==
    [][/\ \A ip \in DOMAIN stateEngine :
            /\ ip \in DOMAIN stateEngine'
            /\ \/ stateEngine'[ip] = stateEngine[ip]
               \/ /\ Len(stateEngine'[ip]) = Len(stateEngine[ip]) + 1
                  /\ SubSeq(stateEngine'[ip], 1, Len(stateEngine[ip])) = stateEngine[ip]
            /\ Len(stateEngine[ip]) > T => Len(stateEngine'[ip]) > T
       /\ \A ip \in DOMAIN stateEngine' \ DOMAIN stateEngine :
            Len(stateEngine'[ip]) = 1
      ]_vars

\* one source blocked after two ports and still so while the other source's
\* first port is recorded
C17_Witness ==
    /\ T = 1
    /\ \E a \in Sources :
         /\ a \in DOMAIN stateEngine
         /\ Len(stateEngine[a]) = 2
         /\ blockedCount[a] = 1
         /\ pkt.ip \in Sources \ {a}
         /\ pkt.ip \in DOMAIN stateEngine
         /\ Len(stateEngine[pkt.ip]) = 1
         /\ ev.alarm # << >>
         /\ ev.blocked = << >>

\* C18: stateEngine and checkedPortCache belong to the capture loop. A step
\* of a reaction goroutine leaves both maps, and everything else of the loop,
\* as they were, and what it does is fixed by the goroutine's own position
\* and the configuration; a goroutine keeps the ip and port it was started
\* with, which are those the loop step triggered on, and the mode never
\* changes
C18_SingleWriter ==
    [][/\ mode' = mode
       /\ \A i \in 1..Len(tasks) :
            /\ i <= Len(tasks')
            /\ tasks'[i].ip = tasks[i].ip
            /\ tasks'[i].port = tasks[i].port
       /\ Len(tasks') > Len(tasks) =>
            /\ Last(tasks').ip = pkt'.ip
            /\ Last(tasks').port = Port'
       /\ ~LoopStep =>
            /\ stateEngine' = stateEngine
            /\ checkedPortCache' = checkedPortCache
            /\ <<tcp', udp', clock', pkt', ev', blockedCount'>> =
                 <<tcp, udp, clock, pkt, ev, blockedCount>>
            /\ \E i \in 1..Len(tasks) :
                 \/ tasks' = [tasks EXCEPT ![i].pc = NextStage(tasks[i].pc)]
                 \/ tasks' = [tasks EXCEPT ![i].st = "hung"]
      ]_vars

\* a reaction has returned and its goroutine has ended while the port cache
\* holds an entry and the source's sequence is stored
C18_Witness ==
    /\ tasks # << >>
    /\ tasks[1].pc = 4
    /\ tasks[1].ip \in DOMAIN stateEngine
    /\ tasks[1].port \in Range(stateEngine[tasks[1].ip])
    /\ checkedPortCache # EmptyMap
    /\ pkt.ip = Loopback

\* C19: scan state is kept per source. A loop step on a packet from one
\* source leaves every other source's sequence, presence in the map and
\* block count as they were; the sender's own sequence afterwards is fixed by
\* its sequence before, the port and T: on an alarm the port is appended if
\* the sequence does not hold it, otherwise nothing changes; and it is the
\* sender that is logged as blocked, exactly when its sequence reaches T + 1
C19_PerSource ==
    [][(LoopStep /\ pkt' # NoPacket) =>
         LET a == pkt'.ip
             old == IF a \in DOMAIN stateEngine THEN stateEngine[a] ELSE << >>
             new == IF a \in DOMAIN stateEngine' THEN stateEngine'[a] ELSE << >>
         IN /\ \A b \in IPs \ {a} :
                 /\ b \in DOMAIN stateEngine' <=> b \in DOMAIN stateEngine
                 /\ b \in DOMAIN stateEngine => stateEngine'[b] = stateEngine[b]
                 /\ blockedCount'[b] = blockedCount[b]
            /\ DOMAIN stateEngine' \subseteq IPs
            /\ new = IF ev'.alarm # << >> /\ Port' \notin Range(old)
                     THEN Append(old, Port')
                     ELSE old
            /\ ev'.blocked # << >> <=> (Len(new) = T + 1 /\ new # old)
            /\ ev'.blocked # << >> => ev'.blocked[1].ip = a
            /\ ev'.alarm # << >> => ev'.alarm[1].ip = a
      ]_vars

\* two sources, each blocked on its own port
C19_Witness ==
    /\ T = 0
    /\ \E a, b \in Sources :
         /\ a # b
         /\ a \in DOMAIN stateEngine
         /\ b \in DOMAIN stateEngine
         /\ stateEngine[a] # stateEngine[b]
         /\ blockedCount[a] = 1
         /\ blockedCount[b] = 1
         /\ pkt.ip = b
         /\ ev.blocked # << >>
         /\ ev.blocked[1].ip = b

\* the port check of the step reported the port in use
InUse ==
    \/ ev'.probes # << >> /\ ev'.probes[1].inUse
    \/ /\ portCacheDuration > 0
       /\ Port' \in DOMAIN checkedPortCache
       /\ checkedPortCache[Port'] > clock'

=============================================================================
